---- MODULE Spec2Model ----
(***************************************************************************)
(* Model of image_framer.py: annotate_image (the single-image annotator)   *)
(* and annotate_images (the folder batch driver).                          *)
(*                                                                         *)
(* Spec        the folder, the driver loop and the steps of annotate_image *)
(*             with every point at which it returns or raises.             *)
(* SpecFrame   the geometry of annotate_image: rotation, frame, caption.   *)
(* SpecResize  the resize step, in IEEE double arithmetic as Python does.  *)
(***************************************************************************)
EXTENDS Integers, Sequences, FiniteSets, TLC

\* ------------------------------------------------------------------ bounds
\* Number of entries of the folder before the first call.
MaxEntries == 2
\* Number of top-level calls (annotate_images or annotate_image) of one run.
MaxCalls == 2

\* ------------------------------------------------------------- file names
\* A file name is a tuple of one-character strings.
n_a_jpg == <<"a", ".", "j", "p", "g">>
n_b_JPEG == <<"b", ".", "J", "P", "E", "G">>
n_c_png == <<"c", ".", "p", "n", "g">>
n_dot_jpg == <<".", "j", "p", "g">>
n_aF_jpg == <<"a", "F", ".", "j", "p", "g">>
n_F_jpg == <<"F", ".", "j", "p", "g">>

Names == {n_a_jpg, n_b_JPEG, n_c_png, n_dot_jpg}

\* str.lower() on one character of the alphabet used by Names.
LowerChar(c) ==
    CASE c = "J" -> "j"
      [] c = "P" -> "p"
      [] c = "E" -> "e"
      [] c = "G" -> "g"
      [] c = "F" -> "f"
      [] OTHER -> c

\* str.lower()
Lower(s) == [i \in 1..Len(s) |-> LowerChar(s[i])]

\* str.endswith(suffix)
EndsWith(s, suffix) ==
    /\ Len(s) >= Len(suffix)
    /\ SubSeq(s, Len(s) - Len(suffix) + 1, Len(s)) = suffix

\* Position of the last "." of p, 0 when there is none (str.rfind, 1-based).
LastDot(p) ==
    LET dots == {i \in 1..Len(p) : p[i] = "."}
    IN  IF dots = {} THEN 0 ELSE CHOOSE i \in dots : \A j \in dots : j <= i

\* os.path.splitext(p)[0] for a name without a directory separator: the name
\* is cut at its last dot, unless every character before that dot is a dot
\* too (leading dots do not start an extension).
SplitextBadRoot(p) ==
    LET d == LastDot(p)
    IN  IF d = 0 THEN p ELSE SubSeq(p, 1, d - 1)

SplitextRoot(p) ==
    LET d == LastDot(p)
    IN  IF d > 0 /\ \E i \in 1..(d - 1) : p[i] # "."
        THEN SubSeq(p, 1, d - 1)
        ELSE p

\* The filter of the batch driver (lines 134-137).
Qualifies(file_name) ==
    \/ EndsWith(Lower(file_name), <<".", "j", "p", "g">>)
    \/ EndsWith(Lower(file_name), <<".", "j", "p", "e", "g">>)

\* f"{os.path.splitext(file_name)[0]}F.jpg" (lines 141-143); the folder is
\* the same for input and output, so a path is identified by its name.
OutputName(file_name) == SplitextRoot(file_name) \o <<"F", ".", "j", "p", "g">>

\* ---------------------------------------------------------- file contents
\* What a file holds, as far as annotate_image looks at it: the format
\* Image.open reports ("NONE": not a decodable image) and whether the EXIF
\* block with the five required tags is there.
Photo == [format |-> "JPEG", exif |-> "full"]
BareJpeg == [format |-> "JPEG", exif |-> "absent"]
Png == [format |-> "PNG", exif |-> "absent"]
Garbage == [format |-> "NONE", exif |-> "absent"]

Contents == {Photo, BareJpeg, Png, Garbage}

\* resized_image.save(output_path) (line 113): the canvas is a new RGB
\* image, saved as JPEG with no exif argument.
Saved(src) == BareJpeg

NoImg == [format |-> "NONE", exif |-> "absent"]
NoName == <<>>

\* The exception classes the model raises; all derive from Exception.
OSErrors ==
    {"FileNotFoundError", "UnidentifiedImageError", "OSError", "PermissionError"}
Exceptions == OSErrors \cup {"KeyError"}

\* `except Exception as e` (line 159).
CatchesOSErrorOnly(e) == e \in OSErrors

CatchesKeyErrorOnly(e) == e = "KeyError"

Catches(e) == e \in Exceptions

\* ------------------------------------------------------ frame geometry
\* Bounds of the inputs of SpecFrame.
MaxSide == 3
MaxBorder == 1
MaxPadding == 1
MaxSpacing == 1
MaxTextHeight == 2

\* EXIF orientation values; 0 stands for a file without the tag.
Orientations == {0, 1, 3, 6, 8}

\* Lines 33-40: the angle chosen for an orientation value.
RotationAngleUpsideDown(orientation_value) ==
    CASE orientation_value = 3 -> 180
      [] orientation_value = 6 -> 180
      [] orientation_value = 8 -> 90
      [] OTHER -> 0

RotationAngle(orientation_value) ==
    CASE orientation_value = 3 -> 180
      [] orientation_value = 6 -> 270
      [] orientation_value = 8 -> 90
      [] OTHER -> 0

\* img.rotate(angle, expand=True): a quarter turn swaps width and height.
Rotate(im, angle) ==
    IF angle = 90 \/ angle = 270
    THEN [width |-> im.height, height |-> im.width]
    ELSE im

\* Line 53.
NewWidth(im, bw) == im.width + 2 * bw

\* Line 54.
FramedHeight(im, bw, tp) == im.height + 2 * bw + tp

\* Lines 71-75.
TotalTextHeight(h1, h2, ls) == h1 + h2 + ls

\* Line 78.
NewHeightOneBorder(im, bw, tp, h1, h2, ls) ==
    im.height + bw + tp + TotalTextHeight(h1, h2, ls) + tp

NewHeight(im, bw, tp, h1, h2, ls) ==
    FramedHeight(im, bw, tp) + TotalTextHeight(h1, h2, ls) + tp

\* Line 85.
TextStartY(im, bw, tp) == im.height + bw + tp

\* The size of the final canvas (framed_image_with_text) for a decoded image
\* and its orientation tag: lines 27-42, then 53, 54 and 78.
FinalCanvas(im, orientation_value, bw, tp, h1, h2, ls) ==
    LET r == Rotate(im, RotationAngle(orientation_value))
    IN  <<NewWidth(r, bw), NewHeight(r, bw, tp, h1, h2, ls)>>

\* ------------------------------------------------- IEEE double arithmetic
\* Python's float is the IEEE 754 double: 53 significant bits, round to
\* nearest, ties to even. A significand does not fit TLC's integers, so a
\* natural number is kept as its little-endian limbs in base 2^15.
MantissaBits == 53

LimbBase == 2^15

RECURSIVE BigFromInt(_)
BigFromInt(n) ==
    IF n = 0 THEN <<>> ELSE <<n % LimbBase>> \o BigFromInt(n \div LimbBase)

RECURSIVE BigToInt(_)
BigToInt(a) ==
    IF a = <<>> THEN 0 ELSE Head(a) + LimbBase * BigToInt(Tail(a))

\* Without its leading zero limbs.
RECURSIVE Trim(_)
Trim(a) ==
    IF a # <<>> /\ a[Len(a)] = 0 THEN Trim(SubSeq(a, 1, Len(a) - 1)) ELSE a

\* a * k + carry, for 0 <= k, carry < 2^15.
RECURSIVE BigMulSmall(_, _, _)
BigMulSmall(a, k, carry) ==
    IF a = <<>>
    THEN BigFromInt(carry)
    ELSE LET t == Head(a) * k + carry
         IN  <<t % LimbBase>> \o BigMulSmall(Tail(a), k, t \div LimbBase)

\* [q, r] with a = q * d + r and 0 <= r < d, for 0 < d <= 2^15; q untrimmed.
RECURSIVE BigDivRem(_, _)
BigDivRem(a, d) ==
    IF a = <<>>
    THEN [q |-> <<>>, r |-> 0]
    ELSE LET hi == BigDivRem(Tail(a), d)
             t == hi.r * LimbBase + Head(a)
         IN  [q |-> <<t \div d>> \o hi.q, r |-> t % d]

RECURSIVE BigInc(_)
BigInc(a) ==
    IF a = <<>> THEN <<1>>
    ELSE IF Head(a) + 1 < LimbBase THEN <<Head(a) + 1>> \o Tail(a)
    ELSE <<0>> \o BigInc(Tail(a))

RECURSIVE BitLenInt(_)
BitLenInt(n) == IF n = 0 THEN 0 ELSE 1 + BitLenInt(n \div 2)

BigBitLen(a) ==
    IF a = <<>> THEN 0 ELSE 15 * (Len(a) - 1) + BitLenInt(a[Len(a)])

BigIsOdd(a) == a # <<>> /\ a[1] % 2 = 1

\* a * 2^n
BigShiftLeft(a, n) ==
    Trim([i \in 1..(n \div 15) |-> 0] \o BigMulSmall(a, 2^(n % 15), 0))

\* [q, sticky]: q = a \div 2^n, sticky iff a bit was shifted out.
BigShiftRight(a, n) ==
    LET drop == IF n \div 15 < Len(a) THEN n \div 15 ELSE Len(a)
        dr == BigDivRem(SubSeq(a, drop + 1, Len(a)), 2^(n % 15))
    IN  [q |-> Trim(dr.q),
         sticky |-> dr.r # 0 \/ \E i \in 1..drop : a[i] # 0]

\* The double nearest to N * 2^e (ties to even), as [m, e]: the value is
\* m * 2^e and m has at most 53 bits (or is 2^53 after a carry). sticky says
\* that the exact value lies above N * 2^e, by less than 2^e.
RoundDouble(N, e, sticky) ==
    LET b == BigBitLen(N)
    IN  IF b <= MantissaBits
        THEN [m |-> N, e |-> e]
        ELSE LET t == b - MantissaBits
                 x == BigShiftRight(N, t - 1)
                 m == BigShiftRight(x.q, 1).q
                 up == BigIsOdd(x.q) /\ (sticky \/ x.sticky \/ BigIsOdd(m))
             IN  [m |-> IF up THEN BigInc(m) ELSE m, e |-> e + t]

\* a / b for Python ints 0 < a, 0 < b < 2^15: the correctly rounded quotient.
\* The quotient is taken with at least 55 bits, so RoundDouble rounds it.
FloatDiv(a, b) ==
    LET s == MantissaBits + 1 + BitLenInt(b)
        dr == BigDivRem(BigShiftLeft(BigFromInt(a), s), b)
    IN  RoundDouble(Trim(dr.q), 0 - s, dr.r # 0)

\* k * x for a Python int 0 < k < 2^15 and a float x: k converts exactly,
\* the product is rounded once.
FloatMulInt(k, x) == RoundDouble(BigMulSmall(x.m, k, 0), x.e, FALSE)

\* int(x) for a float x > 0: truncation.
FloatToInt(x) ==
    IF x.e >= 0
    THEN BigToInt(BigShiftLeft(x.m, x.e))
    ELSE BigToInt(BigShiftRight(x.m, 0 - x.e).q)

\* ------------------------------------------------------------- resize
\* Bounds of the inputs of SpecResize: canvas sides and long_edge_size.
MaxCanvas == 49
MaxLongEdge == 2

\* The default long_edge_size (line 18).
DefaultLongEdge == 2000

\* Line 105.
LongEdgeIsWidth(c) == c.width

LongEdge(c) ==
    IF c.width >= c.height THEN c.width ELSE c.height

\* Line 106.
ScaleRatio(les, le) == FloatDiv(les, le)

\* Lines 107-110.
Scaled(side, scale) == FloatToInt(FloatMulInt(side, scale))

VARIABLES
    folder_ok,     \* os.listdir(folder_path) succeeds
    files,         \* the folder: name -> content
    pc,            \* position of the top-level caller / of annotate_images
    calls,         \* top-level calls started so far
    caller,        \* who invoked annotate_image: "folder" or "direct"
    listing,       \* the list os.listdir returned
    idx,           \* position in listing of the current file_name
    apc,           \* position inside annotate_image
    image_path,    \* annotate_image's arguments
    output_path,
    img,           \* the decoded image
    exc,           \* the exception in flight, "none" when there is none
    outcome,       \* how the last annotate_image ended
    raised,        \* history: the exception the last annotate_image raised
    f_result,      \* how the last annotate_images ended
    invoked,       \* history: sources annotate_image was invoked on, this call
    results,       \* history: how each of these invocations ended
    a_writes,      \* history: paths written by the last annotate_image
    writes,        \* history: [src, dst] pairs written, this top-level call
    start_files,   \* history: the folder when this top-level call began
    prev_files,    \* history: the folder when the previous top-level call began
    \* SpecFrame: one annotate_image call from line 27 to line 102
    gpc,               \* position
    src_size,          \* size of the decoded image
    orientation_value, \* its EXIF orientation
    rotation,          \* the angle img.rotate was called with, 0 for no call
    g_img,             \* img: [width, height], after the rotation
    border_width,
    text_padding,
    line_spacing,
    line1_height,      \* draw.textbbox(line1_part1)[3]
    line2_height,      \* draw.textbbox(line2)[3]
    new_width,
    framed_height,
    paste_xy,          \* where img is pasted into framed_image
    total_text_height,
    new_height,
    text_start_y,
    line1_y,           \* where line 1 was drawn
    line2_y,           \* where line 2 was drawn
    \* SpecResize: lines 104-111
    rpc,               \* position
    canvas,            \* framed_image_with_text: [width, height]
    long_edge_size,
    long_edge,
    scale_ratio,       \* a double, [m, e]
    new_size

fvars == <<folder_ok, files, pc, calls, caller, listing, idx, apc, image_path,
           output_path, img, exc, outcome, raised, f_result, invoked,
           results, a_writes, writes, start_files, prev_files>>

gvars == <<gpc, src_size, orientation_value, rotation, g_img, border_width, text_padding,
           line_spacing, line1_height, line2_height, new_width, framed_height,
           paste_xy, total_text_height, new_height, text_start_y, line1_y,
           line2_y>>

rvars == <<rpc, canvas, long_edge_size, long_edge, scale_ratio, new_size>>

vars == <<fvars, gvars, rvars>>

\* ------------------------------------------------------------------- Init
RECURSIVE Perms(_)
Perms(S) ==
    IF S = {} THEN {<<>>}
    ELSE UNION {{<<x>> \o p : p \in Perms(S \ {x})} : x \in S}

\* A file the driver never opens holds what its name says.
ContentsFor(n) == IF Qualifies(n) THEN Contents ELSE {Png}

Folders ==
    UNION {{f \in [D -> Contents] : \A n \in D : f[n] \in ContentsFor(n)} :
           D \in {D \in SUBSET Names : Cardinality(D) <= MaxEntries}}

FStart(p) ==
    /\ pc = p
    /\ calls = 0
    /\ caller = "none"
    /\ listing = <<>>
    /\ idx = 0
    /\ apc = "none"
    /\ image_path = NoName
    /\ output_path = NoName
    /\ img = NoImg
    /\ exc = "none"
    /\ outcome = "none"
    /\ raised = "none"
    /\ f_result = "none"
    /\ invoked = <<>>
    /\ results = <<>>
    /\ a_writes = <<>>
    /\ writes = {}
    /\ start_files = files
    /\ prev_files = files

\* Spec: a folder, and nothing called yet.
FInit ==
    /\ folder_ok \in BOOLEAN
    /\ files \in Folders
    /\ (~folder_ok => DOMAIN files = {})
    /\ FStart("idle")

\* The other specifications leave the folder and the driver alone.
FIdle ==
    /\ folder_ok = TRUE
    /\ files = <<>>
    /\ FStart("off")

GStart(p) ==
    /\ gpc = p
    /\ rotation = 0
    /\ g_img = src_size
    /\ new_width = 0
    /\ framed_height = 0
    /\ paste_xy = <<0, 0>>
    /\ total_text_height = 0
    /\ new_height = 0
    /\ text_start_y = 0
    /\ line1_y = 0
    /\ line2_y = 0

\* SpecFrame: a decoded JPEG with its five tags, and a configuration.
GInit ==
    /\ src_size \in [width : 1..MaxSide, height : 1..MaxSide]
    /\ orientation_value \in Orientations
    /\ border_width \in 0..MaxBorder
    /\ text_padding \in 0..MaxPadding
    /\ line_spacing \in 0..MaxSpacing
    /\ line1_height \in 1..MaxTextHeight
    /\ line2_height \in 1..MaxTextHeight
    /\ GStart("orient")

GIdle ==
    /\ src_size = [width |-> 1, height |-> 1]
    /\ orientation_value = 0
    /\ border_width = 0
    /\ text_padding = 0
    /\ line_spacing = 0
    /\ line1_height = 1
    /\ line2_height = 1
    /\ GStart("off")

RStart(p) ==
    /\ rpc = p
    /\ long_edge = 0
    /\ scale_ratio = [m |-> <<>>, e |-> 0]
    /\ new_size = <<0, 0>>

\* Canvases of photographs under the default configuration.
SampleCanvases ==
    {[width |-> 6100, height |-> 4636], [width |-> 4200, height |-> 6433]}

\* SpecResize: a final canvas and a long_edge_size.
RInit ==
    /\ canvas \in [width : 1..MaxCanvas, height : 1..MaxCanvas]
                   \cup SampleCanvases
    /\ long_edge_size \in (1..MaxLongEdge) \cup {DefaultLongEdge}
    /\ RStart("long_edge")

RIdle ==
    /\ canvas = [width |-> 1, height |-> 1]
    /\ long_edge_size = 1
    /\ RStart("off")

Init == FInit /\ GIdle /\ RIdle

InitFrame == FIdle /\ GInit /\ RIdle

InitResize == FIdle /\ GIdle /\ RInit

\* --------------------------------------------------- annotate_images
an_vars == <<apc, image_path, output_path, img, outcome, raised>>

\* A caller invokes annotate_images(folder_path).
CallFolder ==
    /\ pc = "idle"
    /\ calls < MaxCalls
    /\ calls' = calls + 1
    /\ pc' = "listdir"
    /\ caller' = "folder"
    /\ f_result' = "running"
    /\ exc' = "none"
    /\ outcome' = "none"
    /\ raised' = "none"
    /\ invoked' = <<>>
    /\ results' = <<>>
    /\ a_writes' = <<>>
    /\ writes' = {}
    /\ start_files' = files
    /\ prev_files' = start_files
    /\ UNCHANGED <<gvars, rvars>>
    /\ UNCHANGED <<folder_ok, files, listing, idx, apc, image_path,
                   output_path, img>>

\* os.listdir(folder_path) (line 131): the entries in an arbitrary order, or
\* an error when the folder cannot be listed.
ListDir ==
    /\ pc = "listdir"
    /\ IF folder_ok
       THEN /\ listing' \in Perms(DOMAIN files)
            /\ idx' = 1
            /\ pc' = "loop"
            /\ exc' = exc
       ELSE /\ exc' = "FileNotFoundError"
            /\ pc' = "except"
            /\ UNCHANGED <<listing, idx>>
    /\ UNCHANGED <<gvars, rvars>>
    /\ UNCHANGED <<folder_ok, files, calls, caller, an_vars, f_result,
                   invoked, results, a_writes, writes, start_files,
                   prev_files>>

\* Lines 134-139: an entry that fails the extension test is skipped.
LoopSkip ==
    /\ pc = "loop"
    /\ idx <= Len(listing)
    /\ ~Qualifies(listing[idx])
    /\ idx' = idx + 1
    /\ UNCHANGED <<gvars, rvars>>
    /\ UNCHANGED <<folder_ok, files, pc, calls, caller, listing, an_vars, exc,
                   f_result, invoked, results, a_writes, writes, start_files,
                   prev_files>>

\* Lines 141-158: the output path is derived and annotate_image is invoked.
LoopCall ==
    /\ pc = "loop"
    /\ idx <= Len(listing)
    /\ Qualifies(listing[idx])
    /\ image_path' = listing[idx]
    /\ output_path' = OutputName(listing[idx])
    /\ invoked' = Append(invoked, listing[idx])
    /\ pc' = "call"
    /\ apc' = "open"
    /\ img' = NoImg
    /\ outcome' = "running"
    /\ raised' = "none"
    /\ a_writes' = <<>>
    /\ UNCHANGED <<gvars, rvars>>
    /\ UNCHANGED <<folder_ok, files, calls, caller, listing, idx, exc,
                   f_result, results, writes, start_files, prev_files>>

\* The for loop is exhausted: annotate_images returns.
LoopEndRelists ==
    /\ pc = "loop"
    /\ idx > Len(listing)
    /\ IF DOMAIN files \subseteq {listing[i] : i \in 1..Len(listing)}
       THEN pc' = "idle" /\ f_result' = "returned" /\ listing' = listing
       ELSE /\ \E n \in DOMAIN files \ {listing[i] : i \in 1..Len(listing)} :
                   listing' = Append(listing, n)
            /\ UNCHANGED <<pc, f_result>>
    /\ UNCHANGED <<gvars, rvars>>
    /\ UNCHANGED <<folder_ok, files, calls, caller, idx, an_vars, exc,
                   invoked, results, a_writes, writes, start_files,
                   prev_files>>

LoopEnd ==
    /\ pc = "loop"
    /\ idx > Len(listing)
    /\ pc' = "idle"
    /\ f_result' = "returned"
    /\ UNCHANGED <<gvars, rvars>>
    /\ UNCHANGED <<folder_ok, files, calls, caller, listing, idx, an_vars, exc,
                   invoked, results, a_writes, writes, start_files,
                   prev_files>>

\* Lines 159-160: the handler around the whole loop. An exception it catches
\* is printed and annotate_images returns; any other leaves annotate_images.
FolderExcept ==
    /\ pc = "except"
    /\ pc' = "idle"
    /\ IF Catches(exc)
       THEN f_result' = "caught"
       ELSE f_result' = "raised"
    /\ exc' = IF Catches(exc) THEN "none" ELSE exc
    /\ UNCHANGED <<gvars, rvars>>
    /\ UNCHANGED <<folder_ok, files, calls, caller, listing, idx, an_vars,
                   invoked, results, a_writes, writes, start_files,
                   prev_files>>

\* ---------------------------------------------------- annotate_image
\* Destinations of a direct call of annotate_image; both have a JPEG
\* extension, as the destination of the script's own call (line 166).
DirectDests == {n_aF_jpg, n_F_jpg}

\* A caller invokes annotate_image(image_path, output_path) itself, as the
\* script does (lines 163-167).
CallDirect(src, dst) ==
    /\ pc = "idle"
    /\ calls < MaxCalls
    /\ calls' = calls + 1
    /\ caller' = "direct"
    /\ pc' = "call"
    /\ apc' = "open"
    /\ image_path' = src
    /\ output_path' = dst
    /\ img' = NoImg
    /\ exc' = "none"
    /\ outcome' = "running"
    /\ raised' = "none"
    /\ f_result' = "none"
    /\ invoked' = <<src>>
    /\ results' = <<>>
    /\ a_writes' = <<>>
    /\ writes' = {}
    /\ start_files' = files
    /\ prev_files' = start_files
    /\ UNCHANGED <<gvars, rvars>>
    /\ UNCHANGED <<folder_ok, files, listing, idx>>

\* annotate_image raises e: the exception leaves annotate_image at once and
\* reaches the handler of annotate_images, or the top level for a direct call.
RaiseCaughtPerFile(e) ==
    /\ apc' = "none"
    /\ outcome' = "raised"
    /\ raised' = e
    /\ exc' = IF caller = "folder" THEN "none" ELSE e
    /\ results' = Append(results, "raised")
    /\ pc' = IF caller = "folder" THEN "loop" ELSE "idle"
    /\ idx' = IF caller = "folder" THEN idx + 1 ELSE idx
    /\ UNCHANGED <<gvars, rvars>>
    /\ UNCHANGED <<folder_ok, files, calls, caller, listing, image_path,
                   output_path, img, f_result, invoked, a_writes, writes,
                   start_files, prev_files>>

Raise(e) ==
    /\ apc' = "none"
    /\ outcome' = "raised"
    /\ raised' = e
    /\ exc' = e
    /\ results' = Append(results, "raised")
    /\ pc' = IF caller = "folder" THEN "except" ELSE "idle"
    /\ UNCHANGED <<gvars, rvars>>
    /\ UNCHANGED <<folder_ok, files, calls, caller, listing, idx, image_path,
                   output_path, img, f_result, invoked, a_writes, writes,
                   start_files, prev_files>>

\* annotate_image returns (None, in every case); o records which return.
Return(o) ==
    /\ apc' = "none"
    /\ outcome' = o
    /\ pc' = IF caller = "folder" THEN "loop" ELSE "idle"
    /\ idx' = IF caller = "folder" THEN idx + 1 ELSE idx
    /\ results' = Append(results, o)
    /\ UNCHANGED <<gvars, rvars>>
    /\ UNCHANGED <<folder_ok, calls, caller, listing, image_path, output_path,
                   img, exc, raised, f_result, invoked, start_files,
                   prev_files>>

\* annotate_image moves on to position p.
Goto(p) ==
    /\ apc' = p
    /\ UNCHANGED <<gvars, rvars>>
    /\ UNCHANGED <<folder_ok, files, pc, calls, caller, listing, idx,
                   image_path, output_path, exc, outcome, raised, f_result,
                   invoked, results, a_writes, writes, start_files,
                   prev_files>>

\* Line 20: Image.open(image_path).
AOpen ==
    /\ apc = "open"
    /\ IF image_path \notin DOMAIN files
       THEN Raise("FileNotFoundError")
       ELSE IF files[image_path].format = "NONE"
       THEN Raise("UnidentifiedImageError")
       ELSE img' = files[image_path] /\ Goto("format")

\* Lines 23-25: an image of another format is reported and left alone.
IsAnyFormat(fmt) == TRUE

IsJpegFormat(fmt) == fmt = "JPEG" \/ fmt = "JPG"

AFormat ==
    /\ apc = "format"
    /\ IF ~IsJpegFormat(img.format)
       THEN Return("skipped") /\ UNCHANGED <<files, a_writes, writes>>
       ELSE Goto("orient") /\ UNCHANGED img

\* Lines 27-42: the rotation; the try block keeps every error inside, and the
\* rotated image keeps the info (the exif block) of the decoded one.
AOrientSavesCopy ==
    /\ apc = "orient"
    /\ apc' = "meta"
    /\ files' = [n \in DOMAIN files \cup {output_path} |->
                    IF n = output_path THEN Saved(img) ELSE files[n]]
    /\ a_writes' = Append(a_writes, output_path)
    /\ writes' = writes \cup {[src |-> image_path, dst |-> output_path]}
    /\ UNCHANGED <<gvars, rvars>>
    /\ UNCHANGED <<folder_ok, pc, calls, caller, listing, idx, image_path,
                   output_path, img, exc, outcome, raised, f_result, invoked,
                   results, start_files, prev_files>>

AOrient ==
    /\ apc = "orient"
    /\ Goto("meta")
    /\ UNCHANGED img

\* Lines 44-50: img.info["exif"] and the five required tags.
HasRequiredTags(i) == i.exif = "full"

AMeta ==
    /\ apc = "meta"
    /\ IF HasRequiredTags(img)
       THEN Goto("fonts") /\ UNCHANGED img
       ELSE Raise("KeyError")

\* Lines 52-59: the framed canvas, then ImageFont.truetype twice; a font file
\* that cannot be read raises OSError.
AFonts ==
    /\ apc = "fonts"
    /\ \/ Goto("render") /\ UNCHANGED img
       \/ Raise("OSError")

\* Lines 61-111: caption, final canvas, resize; all in memory.
ARender ==
    /\ apc = "render"
    /\ Goto("save")
    /\ UNCHANGED img

\* Lines 113-114: the one write of annotate_image, or an error opening the
\* destination for writing.
ASave ==
    /\ apc = "save"
    /\ \/ /\ files' = [n \in DOMAIN files \cup {output_path} |->
                          IF n = output_path THEN Saved(img) ELSE files[n]]
          /\ a_writes' = Append(a_writes, output_path)
          /\ writes' = writes \cup {[src |-> image_path, dst |-> output_path]}
          /\ Return("success")
       \/ Raise("PermissionError")

Annotate ==
    \/ AOpen
    \/ AFormat
    \/ AOrient
    \/ AMeta
    \/ AFonts
    \/ ARender
    \/ ASave

Next ==
    \/ CallFolder
    \/ ListDir
    \/ LoopSkip
    \/ LoopCall
    \/ LoopEnd
    \/ FolderExcept
    \/ \E src \in Names, dst \in DirectDests : CallDirect(src, dst)
    \/ Annotate

Spec == Init /\ [][Next]_vars

\* ------------------------------------------- SpecFrame: lines 27-102
g_inputs == <<src_size, orientation_value, border_width, text_padding,
              line_spacing, line1_height, line2_height>>

\* Lines 27-42: the corrective rotation. A file without the tag, or whose
\* EXIF cannot be read (the except branch), keeps the decoded image.
GOrient ==
    /\ gpc = "orient"
    /\ rotation' = RotationAngle(orientation_value)
    /\ g_img' = Rotate(src_size, RotationAngle(orientation_value))
    /\ gpc' = "frame"
    /\ UNCHANGED <<g_inputs, new_width, framed_height, paste_xy,
                   total_text_height, new_height, text_start_y, line1_y,
                   line2_y>>
    /\ UNCHANGED <<fvars, rvars>>

\* Lines 53-56: the framed canvas, the image pasted at the border.
GFrame ==
    /\ gpc = "frame"
    /\ new_width' = NewWidth(g_img, border_width)
    /\ framed_height' = FramedHeight(g_img, border_width, text_padding)
    /\ paste_xy' = <<border_width, border_width>>
    /\ gpc' = "measure"
    /\ UNCHANGED <<g_inputs, rotation, g_img, total_text_height, new_height,
                   text_start_y, line1_y, line2_y>>
    /\ UNCHANGED <<fvars, rvars>>

\* Lines 66-75: the caption block.
GMeasure ==
    /\ gpc = "measure"
    /\ total_text_height' =
           TotalTextHeight(line1_height, line2_height, line_spacing)
    /\ gpc' = "canvas"
    /\ UNCHANGED <<g_inputs, rotation, g_img, new_width, framed_height, paste_xy,
                   new_height, text_start_y, line1_y, line2_y>>
    /\ UNCHANGED <<fvars, rvars>>

\* Lines 78-85: the final canvas and the top of the caption.
GCanvas ==
    /\ gpc = "canvas"
    /\ new_height' = NewHeight(g_img, border_width, text_padding,
                               line1_height, line2_height, line_spacing)
    /\ text_start_y' = TextStartY(g_img, border_width, text_padding)
    /\ gpc' = "line1"
    /\ UNCHANGED <<g_inputs, rotation, g_img, new_width, framed_height, paste_xy,
                   total_text_height, line1_y, line2_y>>
    /\ UNCHANGED <<fvars, rvars>>

\* Lines 88-98: line 1 is drawn, text_start_y moves below it.
GLine1 ==
    /\ gpc = "line1"
    /\ line1_y' = text_start_y
    /\ text_start_y' = text_start_y + line1_height + line_spacing
    /\ gpc' = "line2"
    /\ UNCHANGED <<g_inputs, rotation, g_img, new_width, framed_height, paste_xy,
                   total_text_height, new_height, line2_y>>
    /\ UNCHANGED <<fvars, rvars>>

\* Lines 101-102: line 2 is drawn.
GLine2 ==
    /\ gpc = "line2"
    /\ line2_y' = text_start_y
    /\ gpc' = "done"
    /\ UNCHANGED <<g_inputs, rotation, g_img, new_width, framed_height, paste_xy,
                   total_text_height, new_height, text_start_y, line1_y>>
    /\ UNCHANGED <<fvars, rvars>>

NextFrame ==
    \/ GOrient
    \/ GFrame
    \/ GMeasure
    \/ GCanvas
    \/ GLine1
    \/ GLine2

SpecFrame == InitFrame /\ [][NextFrame]_vars

\* ------------------------------------------ SpecResize: lines 104-111
\* Line 105.
RLongEdge ==
    /\ rpc = "long_edge"
    /\ long_edge' = LongEdge(canvas)
    /\ rpc' = "scale"
    /\ UNCHANGED <<canvas, long_edge_size, scale_ratio, new_size>>
    /\ UNCHANGED <<fvars, gvars>>

\* Line 106.
RScale ==
    /\ rpc = "scale"
    /\ scale_ratio' = ScaleRatio(long_edge_size, long_edge)
    /\ rpc' = "size"
    /\ UNCHANGED <<canvas, long_edge_size, long_edge, new_size>>
    /\ UNCHANGED <<fvars, gvars>>

\* Lines 107-110.
RNewSize ==
    /\ rpc = "size"
    /\ new_size' = <<Scaled(canvas.width, scale_ratio),
                     Scaled(canvas.height, scale_ratio)>>
    /\ rpc' = "done"
    /\ UNCHANGED <<canvas, long_edge_size, long_edge, scale_ratio>>
    /\ UNCHANGED <<fvars, gvars>>

NextResize ==
    \/ RLongEdge
    \/ RScale
    \/ RNewSize

SpecResize == InitResize /\ [][NextResize]_vars

\* =================================================================== claims
Elems(q) == {q[i] : i \in 1..Len(q)}

\* A call of annotate_images is over (it returned, or an exception left it).
FolderCallOver == caller = "folder" /\ pc = "idle" /\ calls > 0

\* A call of annotate_image is over.
AnnotateOver == apc = "none" /\ outcome \in {"success", "skipped", "raised"}

\* The entries that follow listing[i] in enumeration order.
LaterEntries(i) == {listing[j] : j \in (i + 1)..Len(listing)}

\* Every file not named as a destination in writes is as it was when the
\* top-level call began.
OnlyLoggedWrites ==
    \A n \in (DOMAIN files) \cup (DOMAIN start_files) :
        (\A w \in writes : w.dst # n) =>
            /\ n \in DOMAIN files
            /\ n \in DOMAIN start_files
            /\ files[n] = start_files[n]

\* ----------------------------------------------------------------- C1
\* C1: in annotate_images, once annotate_image has raised on an entry, that
\* invocation is the last of the call: annotate_image is invoked on no later
\* entry of the listing, no file is written for or at the output of a later
\* entry, and the outputs written for earlier entries are still there.
C1_BatchAbort ==
    (caller = "folder" /\ pc \in {"loop", "call", "except", "idle"}) =>
        \A i \in 1..Len(results) :
            results[i] = "raised" =>
                /\ i = Len(invoked)
                /\ idx \in 1..Len(listing)
                /\ invoked[i] = listing[idx]
                /\ \A n \in LaterEntries(idx) :
                       /\ n \notin Elems(invoked)
                       /\ \A w \in writes : w.src # n
                       /\ (OutputName(n) \notin DOMAIN start_files
                           /\ \A w \in writes : w.dst # OutputName(n))
                          => OutputName(n) \notin DOMAIN files
                /\ \A w \in writes :
                       w.dst \in DOMAIN files /\ files[w.dst] = Saved(Photo)
                /\ OnlyLoggedWrites

\* An entry succeeded, the next one raised, and a qualifying entry follows.
C1_Witness ==
    /\ FolderCallOver
    /\ Len(results) = 2
    /\ results[1] = "success"
    /\ results[2] = "raised"
    /\ \E n \in LaterEntries(idx) : Qualifies(n)
    /\ OutputName(invoked[1]) \in DOMAIN files

\* ----------------------------------------------------------------- C2
\* C2 as stated: an error annotate_image raises inside annotate_images is
\* not caught there, it leaves annotate_images (no normal return).
C2_Propagates ==
    (FolderCallOver /\ "raised" \in Elems(results)) => f_result = "raised"

\* C2 amended: an error annotate_image raises inside annotate_images is
\* caught by the handler around the loop; annotate_images returns normally
\* and no exception reaches its caller.
C2_CaughtByFolder ==
    (FolderCallOver /\ "raised" \in Elems(results)) =>
        /\ f_result = "caught"
        /\ exc = "none"
        /\ results[Len(results)] = "raised"

C2_Witness ==
    /\ FolderCallOver
    /\ raised = "KeyError"
    /\ f_result = "caught"
    /\ idx < Len(listing)

\* ----------------------------------------------------------------- C3
\* A call of annotate_images returned and every qualifying entry of the
\* listing was annotated successfully.
AllAnnotated ==
    /\ FolderCallOver
    /\ f_result = "returned"
    /\ \A i \in 1..Len(results) : results[i] = "success"

JpgSuffix == <<".", "j", "p", "g">>
JpegSuffix == <<".", "j", "p", "e", "g">>
FJpg == <<"F", ".", "j", "p", "g">>

\* The name without the .jpg or .jpeg suffix that makes it qualify.
WithoutSuffix(n) ==
    IF EndsWith(Lower(n), JpgSuffix)
    THEN SubSeq(n, 1, Len(n) - Len(JpgSuffix))
    ELSE SubSeq(n, 1, Len(n) - Len(JpegSuffix))

\* No non-qualifying entry is read, written or changed by the call.
OthersUntouched ==
    \A n \in Elems(listing) :
        ~Qualifies(n) =>
            /\ n \notin Elems(invoked)
            /\ \A w \in writes : w.src # n /\ w.dst # n
            /\ n \in DOMAIN files
            /\ files[n] = start_files[n]

\* C3 as stated: after a call in which every qualifying entry was annotated,
\* each entry ending in .jpg or .jpeg has the output <name without that
\* extension>F.jpg in the folder, and the other entries are untouched.
C3_OutputPerSuffix ==
    AllAnnotated =>
        /\ \A n \in Elems(listing) :
               Qualifies(n) => (WithoutSuffix(n) \o FJpg) \in DOMAIN files
        /\ OthersUntouched

\* C3 amended: the output is named as os.path.splitext cuts the name: a name
\* that is only dots before its last dot (.jpg) has no extension and keeps
\* all of its characters (.jpgF.jpg); every other qualifying name loses its
\* .jpg or .jpeg suffix. The output was written for that entry by this call.
COutputName(n) ==
    IF \A i \in 1..(Len(WithoutSuffix(n))) : n[i] = "."
    THEN n \o FJpg
    ELSE WithoutSuffix(n) \o FJpg

C3_Outputs ==
    AllAnnotated =>
        /\ \A n \in Elems(listing) :
               Qualifies(n) =>
                   /\ COutputName(n) \in DOMAIN files
                   /\ files[COutputName(n)].format = "JPEG"
                   /\ [src |-> n, dst |-> COutputName(n)] \in writes
        /\ \A w \in writes : w.src \in Elems(listing) /\ Qualifies(w.src)
        /\ OthersUntouched

C3_Witness ==
    /\ AllAnnotated
    /\ Elems(listing) = {n_dot_jpg, n_c_png}
    /\ DOMAIN files = {n_dot_jpg, n_c_png, n_dot_jpg \o FJpg}

\* ----------------------------------------------------------------- C4
\* C4: annotate_image writes nothing before its one write at the end: no
\* file while it runs, exactly output_path when it succeeds, none when it
\* skips or raises; and no file but a destination is ever changed.
C4_OneWrite ==
    /\ outcome = "running" => a_writes = <<>>
    /\ outcome = "success" => a_writes = <<output_path>>
    /\ outcome = "skipped" => a_writes = <<>>
    /\ outcome = "raised" => a_writes = <<>>
    /\ Elems(a_writes) \subseteq {output_path}
    /\ \A w \in writes : w.dst = OutputName(w.src) \/ caller = "direct"
    /\ (caller = "direct" => \A w \in writes :
                                 w.src = image_path /\ w.dst = output_path)
    /\ OnlyLoggedWrites

\* A direct call that succeeded, to a destination other than <stem>F.jpg.
C4_Witness ==
    /\ caller = "direct"
    /\ AnnotateOver
    /\ outcome = "success"
    /\ a_writes = <<output_path>>
    /\ output_path # OutputName(image_path)
    /\ files[output_path] = BareJpeg

\* ----------------------------------------------------------------- C5
\* The source of the last annotate_image is a file that is not a JPEG.
NonJpegInput ==
    /\ AnnotateOver
    /\ image_path \in DOMAIN files
    /\ files[image_path].format # "JPEG"

\* C5 as stated: for every non-JPEG input, also one that is no decodable
\* image, annotate_image writes nothing and returns normally.
C5_AlwaysReturns ==
    NonJpegInput => (outcome = "skipped" /\ raised = "none" /\ a_writes = <<>>)

\* C5 amended: an input that decodes as another format is skipped: nothing
\* is written and annotate_image returns normally. An input that is no
\* decodable image writes nothing either, but Image.open raises and the
\* error leaves annotate_image.
C5_NonJpeg ==
    NonJpegInput =>
        /\ a_writes = <<>>
        /\ files = start_files \/ caller = "folder"
        /\ files[image_path].format = "NONE" =>
               (outcome = "raised" /\ raised = "UnidentifiedImageError")
        /\ files[image_path].format # "NONE" =>
               (outcome = "skipped" /\ raised = "none")

C5_Witness ==
    /\ NonJpegInput
    /\ caller = "direct"
    /\ files[image_path] = Png
    /\ outcome = "skipped"

\* ----------------------------------------------------------------- C7
\* C7: when the folder cannot be listed, annotate_images catches the error,
\* returns normally, never invokes annotate_image and writes nothing.
C7_ListingFailure ==
    (FolderCallOver /\ ~folder_ok) =>
        /\ f_result = "caught"
        /\ exc = "none"
        /\ invoked = <<>>
        /\ writes = {}
        /\ files = start_files

C7_Witness == FolderCallOver /\ ~folder_ok /\ f_result = "caught"

\* ---------------------------------------------------------------- C10
\* C10: annotate_image is invoked at most once per entry, and only on
\* entries the folder held when the call began; a folder holding only a.jpg
\* holds a.jpg and aF.jpg after the call (never aFF.jpg); a following call on
\* that folder takes aF.jpg as an input, unless a.jpg came first and raised.
C10_ListedOnce ==
    caller = "folder" =>
        /\ \A i, j \in 1..Len(invoked) : invoked[i] = invoked[j] => i = j
        /\ Elems(invoked) \subseteq DOMAIN start_files
        /\ Elems(listing) = DOMAIN start_files \/ pc = "listdir"
        /\ (FolderCallOver /\ DOMAIN start_files = {n_a_jpg}) =>
               /\ DOMAIN files \subseteq {n_a_jpg, n_aF_jpg}
               /\ results = <<"success">> =>
                      DOMAIN files = {n_a_jpg, n_aF_jpg}
               /\ files[n_a_jpg] = start_files[n_a_jpg]
        /\ (/\ FolderCallOver
            /\ DOMAIN prev_files = {n_a_jpg}
            /\ DOMAIN start_files = {n_a_jpg, n_aF_jpg}) =>
               \/ n_aF_jpg \in Elems(invoked)
               \/ invoked = <<n_a_jpg>> /\ results = <<"raised">>

\* The second call on {a.jpg, aF.jpg} has read aF.jpg.
C10_Witness ==
    /\ FolderCallOver
    /\ calls = 2
    /\ DOMAIN prev_files = {n_a_jpg}
    /\ DOMAIN start_files = {n_a_jpg, n_aF_jpg}
    /\ invoked = <<n_a_jpg, n_aF_jpg>>
    /\ DOMAIN files = {n_a_jpg, n_aF_jpg}

\* ----------------------------------------------------------------- C6
Max2(a, b) == IF a >= b THEN a ELSE b
Min2(a, b) == IF a <= b THEN a ELSE b

\* min(W, H) * L / max(W, H), truncated, in exact arithmetic.
ExactShort ==
    (Min2(canvas.width, canvas.height) * long_edge_size)
        \div Max2(canvas.width, canvas.height)

\* min(W, H) * L / max(W, H) is a whole number.
ExactShortIsWhole ==
    (Min2(canvas.width, canvas.height) * long_edge_size)
        % Max2(canvas.width, canvas.height) = 0

LongInRange ==
    /\ long_edge_size - 1 <= Max2(new_size[1], new_size[2])
    /\ Max2(new_size[1], new_size[2]) <= long_edge_size

\* The axes keep their order: the longer side of the canvas stays the longer.
AxesKept ==
    /\ canvas.width >= canvas.height => new_size[1] >= new_size[2]
    /\ canvas.width <= canvas.height => new_size[1] <= new_size[2]

CanvasSize == <<new_width, new_height>>

\* The final canvas of the same image and configuration with orientation o.
CanvasWith(o) ==
    FinalCanvas(src_size, o, border_width, text_padding, line1_height,
                line2_height, line_spacing)

\* C8 as stated: with orientation 6 the final canvas differs in size from
\* the one the same image gets with orientation 1, whatever its sides.
C8_AlwaysDiffers ==
    (gpc = "done" /\ orientation_value = 6) => CanvasSize # CanvasWith(1)

\* The caption and frame added around an image of the given sides.
CanvasAround(w, h) ==
    <<w + 2 * border_width,
      h + 2 * border_width + 2 * text_padding + line1_height + line2_height
        + line_spacing>>

\* C8 amended: orientation 3 turns the image by 180, 6 by 270, 8 by 90, any
\* other value not at all; with 6 (and 8) the canvas is the one of the image
\* with width and height swapped, which differs in size from the canvas for
\* orientation 1 exactly when width # height; a square image gets the same
\* canvas size for both.
C8_Orientation ==
    gpc = "done" =>
        /\ orientation_value = 3 => rotation = 180
        /\ orientation_value = 6 => rotation = 270
        /\ orientation_value = 8 => rotation = 90
        /\ orientation_value \notin {3, 6, 8} => rotation = 0
        /\ orientation_value \in {6, 8} =>
               CanvasSize = CanvasAround(src_size.height, src_size.width)
        /\ orientation_value \notin {6, 8} =>
               CanvasSize = CanvasAround(src_size.width, src_size.height)
        /\ orientation_value = 6 =>
               (CanvasSize # CanvasWith(1) <=> src_size.width # src_size.height)

C8_Witness ==
    /\ gpc = "done"
    /\ orientation_value = 6
    /\ src_size.width # src_size.height
    /\ CanvasSize # CanvasWith(1)
    /\ CanvasSize = CanvasAround(src_size.height, src_size.width)

\* ----------------------------------------------------------------- C9
\* From the bottom edge of the pasted image to the top of line 1.
GapAboveCaption == line1_y - (paste_xy[2] + g_img.height)

\* From the bottom of line 2 to the bottom edge of the canvas.
GapBelowCaption == new_height - (line2_y + line2_height)

\* C9 as stated: both gaps equal text_padding.
C9_BothGapsPadding ==
    gpc = "done" =>
        /\ GapAboveCaption = text_padding
        /\ GapBelowCaption = text_padding

\* C9 amended: the gap between image and caption is text_padding; line 2
\* starts line1_height + line_spacing below line 1; the gap below the
\* caption is text_padding + border_width (the bottom border lies below it).
C9_Gaps ==
    gpc = "done" =>
        /\ GapAboveCaption = text_padding
        /\ line2_y = line1_y + line1_height + line_spacing
        /\ GapBelowCaption = text_padding + border_width

C9_Witness ==
    /\ gpc = "done"
    /\ border_width > 0
    /\ text_padding > 0
    /\ GapBelowCaption = text_padding + border_width

====
